---- MODULE Spec2Model ----
(***************************************************************************)
(* Model of create_png_file.py: QPngCreator stitches the pages of a PDF    *)
(* (or a caller-supplied list of PNG files) into one tall PNG, and main    *)
(* drives one reused QPngCreator over the PDFs of a Drive folder.          *)
(*                                                                         *)
(* Strings that the code slices, formats or sorts (file names, paths) are  *)
(* sequences of character codes, so that "%02d" formatting, [:-4],         *)
(* splitext and sorted() are computed as Python computes them.  A missing  *)
(* argument (None) and an empty one ("" or []) are both the empty          *)
(* sequence: the code only tests their truthiness.                         *)
(* An image is its geometry: raster pages are [w, h, src] (src = the PDF   *)
(* page number, 0 for a file that is no PDF page), the canvas is           *)
(* [h, w, strips].  Log lines omit the timestamp.                          *)
(***************************************************************************)
EXTENDS Integers, Sequences, FiniteSets, TLC

\* ---------------------------------------------------------------- bounds
MaxPages == 2      \* pages of a short PDF, entries of a png_list argument
MaxCalls == 2      \* execute calls on the one QPngCreator instance
LongLen == 100     \* pages of the shortest long PDF

\* ------------------------------------------------------ program constants
SIZE_MAX == 65535
TEMP_HEIGHT == 100000
TOP_MARGIN == 10
V_WIDTH == 640
H_WIDTH == 1000
CROP_X == 250
CROP_Y == 350

\* ---------------------------------------------------------------- strings
DotPng == <<46, 112, 110, 103>>
DotPdf == <<46, 112, 100, 102>>
Underscore == <<95>>
TEMP_PATH == <<116, 47>>

RECURSIVE Digits(_)
Digits(n) == IF n < 10 THEN <<48 + n>> ELSE Digits(n \div 10) \o <<48 + (n % 10)>>

\* f"{n:02d}"
Format02d(n) == IF n < 10 THEN <<48>> \o Digits(n) ELSE Digits(n)

\* os.path.join(self.TEMP_PATH, f"_{i+1:02d}.png"), n = i + 1
TempFile(n) == TEMP_PATH \o Underscore \o Format02d(n) \o DotPng

\* Python's str.__lt__
StrLess(a, b) ==
    \E k \in 1..(Len(a) + 1) :
        /\ k <= Len(b)
        /\ \A j \in 1..(k - 1) : a[j] = b[j]
        /\ (k = Len(a) + 1 \/ a[k] < b[k])

\* sorted(self.png_list)
Sorted(list) == SortSeq(list, StrLess)

\* os.path.basename(pdf_path)[:-4]
StripLast4(name) == SubSeq(name, 1, Len(name) - 4)

\* os.path.splitext(pdf_name)[0]: cut at the last dot that follows a non-dot
SplitExtBase(name) ==
    LET dots == {k \in 2..Len(name) :
                    name[k] = 46 /\ \E j \in 1..(k - 1) : name[j] # 46}
    IN  IF dots = {} THEN name
        ELSE SubSeq(name, 1, (CHOOSE k \in dots : \A m \in dots : m <= k) - 1)

\* --------------------------------------------------------------- geometry
\* Python's round() of the ratio n / d: nearest integer, ties to even.  The code
\* rounds the double h * (W / w); on the page sizes used here that double rounds
\* to the same integer as the exact ratio.
Round(n, d) ==
    LET q == n \div d
        r == n % d
    IN  IF 2 * r < d THEN q
        ELSE IF 2 * r > d THEN q + 1
        ELSE IF q % 2 = 0 THEN q ELSE q + 1

Page(w, h, src) == [w |-> w, h |-> h, src |-> src]

\* page.crop((250, 350, width - 250, height - 350))
Crop(page) == [page EXCEPT !.w = page.w - 2 * CROP_X, !.h = page.h - 2 * CROP_Y]

SetOutputWidthSwapped(h, w) == IF w >= h THEN V_WIDTH ELSE H_WIDTH

\* _set_output_width
SetOutputWidth(h, w) == IF h >= w THEN V_WIDTH ELSE H_WIDTH

\* _paste_image: new_size[1] = round(shape[0] * (output_width / shape[1]))
NewHeight(img, width) == Round(img.h * width, img.w)

FitsUnchecked(line, nh) == TRUE

\* _paste_image: not (pasted_line + new_size[1] > TEMP_HEIGHT)
Fits(line, nh) == ~(line + nh > TEMP_HEIGHT)

\* _create_board
CreateBoard(width) == [h |-> TEMP_HEIGHT, w |-> width, strips |-> <<>>]

TrimNone(img, line) == img

\* self.base_img[:self.pasted_line, :]
Trim(img, line) == [img EXCEPT !.h = IF line < img.h THEN line ELSE img.h]

\* resize_image
ResizeImage(img) ==
    IF img.h < SIZE_MAX THEN img
    ELSE [img EXCEPT !.h = SIZE_MAX, !.w = Round(img.w * SIZE_MAX, img.h)]

ModeIgnoringSaveName(pdf, list, name) ==
    IF pdf # <<>> THEN "pdf" ELSE IF list # <<>> THEN "png" ELSE "none"

\* execute: which branch of if / elif / else the arguments select
Mode(pdf, list, name) ==
    IF pdf # <<>> THEN "pdf"
    ELSE IF list # <<>> /\ name # <<>> THEN "png"
    ELSE "none"

StalePastedLine(old) == old

\* execute: self.pasted_line = 10
InitialPastedLine(old) == TOP_MARGIN

\* ------------------------------------------------------------ environment
Portrait == Page(1000, 1400, 0)
Landscape == Page(1400, 1000, 0)
Scroll == Page(1000, 125000, 0)
\* the page sizes PageRaster yields for the PDFs of the input folder
PdfPageKinds == {Portrait, Scroll}

SeqsUpTo(S, n) == UNION {[1..k -> S] : k \in 1..n}

Numbered(pages) == [k \in DOMAIN pages |-> [pages[k] EXCEPT !.src = k]]

PdfName == <<97>> \o DotPdf

\* the PDFs list_pdfs_in_folder can return, with what PageRaster makes of them
ShortPdfs ==
    {[name |-> PdfName, pages |-> Numbered(p)] :
        p \in SeqsUpTo(PdfPageKinds, MaxPages) \cup {<<Portrait, Portrait, Portrait>>}}

LongPdfs ==
    {[name |-> PdfName, pages |-> Numbered([k \in 1..n |-> Portrait])] : n \in {LongLen, LongLen + 1}}
    \cup {[name |-> PdfName, pages |-> Numbered([k \in 1..(LongLen + 1) |->
                                          IF k = LongLen + 1 THEN Scroll ELSE Portrait])]}

\* PNG files outside TEMP_PATH that a png_list argument can name
ExtFiles == (<<108>> \o DotPng :> Landscape) @@ (<<115>> \o DotPng :> Scroll)

PngListArgs == {<<>>} \cup SeqsUpTo(DOMAIN ExtFiles, MaxPages)
SaveNameArgs == {<<>>, <<111>>}

EmptyDir == [p \in {} |-> Portrait]
NoImage == [h |-> 0, w |-> 0, strips |-> <<>>]
NoCall == [pdf_path |-> <<>>, pages |-> <<>>, png_list |-> <<>>, save_name |-> <<>>]

VARIABLES
    resize_flg,    \* self.resize_flg
    pdf_files,     \* main: the listing of the input folder
    pc,            \* "idle" | "loop" | "post" | "upload"
    call,          \* the arguments of the current execute call
    pdf_path,      \* self.pdf_path
    save_name,     \* self.save_name
    png_list,      \* self.png_list
    temp,          \* the files of TEMP_PATH
    output_width,  \* self.output_width
    pasted_line,   \* self.pasted_line
    base_img,      \* self.base_img
    over_flg,      \* execute: over_flg
    result,        \* execute: result of the last _paste_image
    log,           \* the lines of the log file
    log_start,     \* length of the log when the current call began
    png_dir,       \* the files of output_path
    drive,         \* the files uploaded to the output folder
    calls,         \* execute calls made so far
    trace          \* one record per execute call that returned

vars == <<resize_flg, pdf_files, pc, call, pdf_path, save_name, png_list, temp,
          output_width, pasted_line, base_img, over_flg, result, log, log_start,
          png_dir, drive, calls, trace>>

\* _cv2_read
ReadPng(path) == IF path \in DOMAIN temp THEN temp[path] ELSE ExtFiles[path]

Put(dir, path, img) == [p \in DOMAIN dir \cup {path} |-> IF p = path THEN img ELSE dir[p]]

\* the state QPngCreator.__init__ leaves, in the process main starts
InitWith(files) ==
    /\ resize_flg \in BOOLEAN
    /\ pdf_files = files
    /\ pc = "idle"
    /\ call = NoCall
    /\ pdf_path = <<>>
    /\ save_name = <<>>
    /\ png_list = <<>>
    /\ temp = EmptyDir
    /\ output_width = V_WIDTH
    /\ pasted_line = 0            \* not set before the first execute
    /\ base_img = NoImage         \* not set before the first execute
    /\ over_flg = FALSE
    /\ result = TRUE
    /\ log = <<>>
    /\ log_start = 0
    /\ png_dir = EmptyDir
    /\ drive = <<>>
    /\ calls = 0
    /\ trace = <<>>

Init == InitWith(ShortPdfs)

InitLong == InitWith(LongPdfs)

\* _create_png: the files written to TEMP_PATH
CreatePngFiles(pages) ==
    [p \in {TempFile(k) : k \in DOMAIN pages} |->
        LET k == CHOOSE j \in DOMAIN pages : TempFile(j) = p
        IN  IF resize_flg THEN Crop(pages[k]) ELSE pages[k]]

\* _create_png: the list returned
CreatePngList(pages) == Sorted([k \in DOMAIN pages |-> TempFile(k)])

\* execute up to the page loop
Execute(pdf, pages, list, name) ==
    /\ pc = "idle"
    /\ calls < MaxCalls
    /\ calls' = calls + 1
    /\ call' = [pdf_path |-> pdf, pages |-> pages, png_list |-> list, save_name |-> name]
    /\ log_start' = Len(log)
    /\ UNCHANGED <<resize_flg, pdf_files, log, png_dir, drive>>
    /\ IF Mode(pdf, list, name) = "none"
       THEN /\ trace' = Append(trace, [call |-> call', ret |-> FALSE, img |-> NoImage,
                                       file |-> <<>>, lines |-> <<>>, aborted |-> FALSE,
                                       over |-> FALSE, width |-> 0, offset |-> 0])
            /\ UNCHANGED <<pc, pdf_path, save_name, png_list, temp, output_width,
                           pasted_line, base_img, over_flg, result>>
       ELSE LET files == IF Mode(pdf, list, name) = "pdf" THEN CreatePngFiles(pages) ELSE temp
                paths == IF Mode(pdf, list, name) = "pdf" THEN CreatePngList(pages) ELSE list
                first == IF paths[1] \in DOMAIN files THEN files[paths[1]] ELSE ExtFiles[paths[1]]
                width == SetOutputWidth(first.h, first.w)
            IN  /\ save_name' = IF Mode(pdf, list, name) = "pdf" THEN StripLast4(pdf) ELSE name
                /\ pdf_path' = IF Mode(pdf, list, name) = "pdf" THEN pdf ELSE <<>>
                /\ temp' = files
                /\ png_list' = paths
                /\ pasted_line' = InitialPastedLine(pasted_line)
                /\ output_width' = width
                /\ base_img' = CreateBoard(width)
                /\ over_flg' = FALSE
                /\ result' = TRUE
                /\ pc' = "loop"
                /\ UNCHANGED trace

\* main: one iteration of the loop over pdf_files, up to execute's page loop
MainIteration ==
    \E file \in pdf_files : Execute(file.name, file.pages, <<>>, <<>>)

\* execute(png_list=..., save_name=...) with both arguments given
ExecutePngList ==
    \E list \in PngListArgs, name \in SaveNameArgs :
        /\ Mode(<<>>, list, name) # "none"
        /\ Execute(<<>>, <<>>, list, name)

\* execute with neither a pdf_path nor both of png_list and save_name
ExecuteRejected ==
    \E list \in PngListArgs, name \in SaveNameArgs :
        /\ Len(list) <= 1
        /\ Mode(<<>>, list, name) = "none"
        /\ Execute(<<>>, <<>>, list, name)

\* the page the loop is at
Current == Len(base_img.strips) + 1

\* execute: one iteration of the page loop in which _paste_image returns True
PastePage ==
    /\ pc = "loop"
    /\ LET img == ReadPng(png_list[Current])
           nh == NewHeight(img, output_width)
       IN  /\ Fits(pasted_line, nh)
           /\ over_flg' = (over_flg \/ pasted_line >= SIZE_MAX)
           /\ base_img' = [base_img EXCEPT !.strips =
                             Append(@, [top |-> pasted_line, h |-> nh, w |-> output_width,
                                        path |-> png_list[Current], src |-> img.src])]
           /\ pasted_line' = pasted_line + nh
           /\ result' = TRUE
           /\ pc' = IF Current = Len(png_list) THEN "post" ELSE "loop"
    /\ UNCHANGED <<resize_flg, pdf_files, call, pdf_path, save_name, png_list, temp,
                   output_width, log, log_start, png_dir, drive, calls, trace>>

\* execute: the iteration in which _paste_image returns False
AbortPage ==
    /\ pc = "loop"
    /\ LET img == ReadPng(png_list[Current])
           nh == NewHeight(img, output_width)
       IN  /\ ~Fits(pasted_line, nh)
           /\ over_flg' = (over_flg \/ pasted_line >= SIZE_MAX)
           /\ result' = FALSE
           /\ log' = Append(log, [target |-> save_name, message |-> "size_exceeded"])
           /\ pc' = "post"
    /\ UNCHANGED <<resize_flg, pdf_files, call, pdf_path, save_name, png_list, temp,
                   output_width, pasted_line, base_img, log_start, png_dir, drive,
                   calls, trace>>

\* execute after the page loop: trim, resize, log, _save_png, cleanup, return True
Finish ==
    /\ pc = "post"
    /\ LET trimmed == Trim(base_img, pasted_line)
           final == IF over_flg THEN ResizeImage(trimmed) ELSE trimmed
           line == [target |-> save_name,
                    message |-> IF over_flg THEN "resized" ELSE "normal"]
           file == save_name \o DotPng
       IN  /\ base_img' = final
           /\ log' = Append(log, line)
           /\ png_dir' = Put(png_dir, file, final)
           /\ trace' = Append(trace, [call |-> call, ret |-> TRUE, img |-> final,
                                      file |-> file,
                                      lines |-> SubSeq(log', log_start + 1, Len(log')),
                                      aborted |-> ~result, over |-> over_flg,
                                      width |-> output_width, offset |-> pasted_line])
    /\ temp' = IF pdf_path # <<>> THEN EmptyDir ELSE temp
    /\ pc' = IF pdf_path # <<>> THEN "upload" ELSE "idle"
    /\ UNCHANGED <<resize_flg, pdf_files, call, pdf_path, save_name, png_list,
                   output_width, pasted_line, over_flg, result, log_start, drive, calls>>

\* main: upload_png after execute returned True
Upload ==
    /\ pc = "upload"
    /\ LET base_name == SplitExtBase(call.pdf_path)
       IN  /\ base_name \o DotPng \in DOMAIN png_dir
           /\ drive' = Append(drive, [name |-> base_name \o DotPng,
                                      img |-> png_dir[base_name \o DotPng]])
    /\ pc' = "idle"
    /\ UNCHANGED <<resize_flg, pdf_files, call, pdf_path, save_name, png_list, temp,
                   output_width, pasted_line, base_img, over_flg, result, log, log_start,
                   png_dir, calls, trace>>

Next ==
    \/ MainIteration
    \/ ExecutePngList
    \/ ExecuteRejected
    \/ PastePage
    \/ AbortPage
    \/ Finish
    \/ Upload

Spec == Init /\ [][Next]_vars

SpecLong == InitLong /\ [][Next]_vars

\* ------------------------------------------------------------ properties
Composing == pc \in {"loop", "post"}

Messages(lines) == [k \in DOMAIN lines |-> lines[k].message]

\* the page images a call composes, as _cv2_read returns them
PagesRead(c) ==
    IF c.pdf_path # <<>>
    THEN [k \in DOMAIN c.pages |-> IF resize_flg THEN Crop(c.pages[k]) ELSE c.pages[k]]
    ELSE [k \in DOMAIN c.png_list |-> ExtFiles[c.png_list[k]]]

RECURSIVE SumHeights(_, _, _)
SumHeights(pages, width, n) ==
    IF n = 0 THEN 0
    ELSE SumHeights(pages, width, n - 1) + Round(pages[n].h * width, pages[n].w)

\* top margin plus the rescaled heights of all pages of the call of entry e
ExpectedHeight(e) ==
    TOP_MARGIN + SumHeights(PagesRead(e.call), e.width, Len(PagesRead(e.call)))

\* C1: a run in which a page does not fit the provisional canvas ends without an
\* output file (execute does not hand main a result to upload) and logs for the
\* document the single outcome "size-exceeded".
C1_AbortLeavesNoOutput ==
    /\ pc = "upload" => result
    /\ \A i \in DOMAIN trace :
          trace[i].aborted =>
              /\ trace[i].file = <<>>
              /\ Messages(trace[i].lines) = <<"size_exceeded">>

\* C2: in every non-aborted run whose final pasted_line is >= 65535, the saved
\* image is 65535 high and round(width * 65535 / pasted_line) wide, and the
\* outcome logged is "resized".
C2_OverflowReduced ==
    \A i \in DOMAIN trace :
        (trace[i].ret /\ ~trace[i].aborted /\ trace[i].offset >= SIZE_MAX) =>
            /\ trace[i].img.h = SIZE_MAX
            /\ trace[i].img.w = Round(trace[i].width * SIZE_MAX, trace[i].offset)
            /\ Messages(trace[i].lines) = <<"resized">>

\* C3 as stated: whenever the cumulative rescaled height stays below 100000, the
\* composite is 10 + the sum of the rescaled page heights high and targetWidth wide.
C3_CompositeHeight_Original ==
    \A i \in DOMAIN trace :
        (trace[i].ret /\ ExpectedHeight(trace[i]) < TEMP_HEIGHT) =>
            /\ trace[i].img.h = ExpectedHeight(trace[i])
            /\ trace[i].img.w = trace[i].width

\* C3 as amended: whenever the cumulative rescaled height stays below 100000 and
\* the overflow flag was not set during the page loop, the composite is 10 + the
\* sum of the rescaled page heights high and targetWidth wide.
C3_CompositeHeight ==
    \A i \in DOMAIN trace :
        (trace[i].ret /\ ExpectedHeight(trace[i]) < TEMP_HEIGHT /\ ~trace[i].over) =>
            /\ ~trace[i].aborted
            /\ trace[i].img.h = ExpectedHeight(trace[i])
            /\ trace[i].img.w = trace[i].width

C3_Witness ==
    \E i \in DOMAIN trace :
        /\ trace[i].ret
        /\ ~trace[i].over
        /\ Len(PagesRead(trace[i].call)) = 3
        /\ trace[i].img.h = 2698
        /\ trace[i].img.w = V_WIDTH

\* C4: while a document is composed, output_width is the width chosen from the
\* first page alone (V_WIDTH if its height >= its width, else H_WIDTH), and every
\* page pasted so far was rescaled to that width whatever its own orientation.
C4_TargetWidth ==
    Composing =>
        LET first == ReadPng(png_list[1])
            chosen == IF first.h >= first.w THEN V_WIDTH ELSE H_WIDTH
        IN  /\ output_width = chosen
            /\ base_img.w = chosen
            /\ \A k \in DOMAIN base_img.strips :
                  LET img == ReadPng(base_img.strips[k].path)
                  IN  /\ base_img.strips[k].w = chosen
                      /\ base_img.strips[k].h = Round(img.h * chosen, img.w)

C4_Witness ==
    /\ Composing
    /\ Len(base_img.strips) = 2
    /\ ReadPng(png_list[1]).h >= ReadPng(png_list[1]).w
    /\ ReadPng(png_list[2]).h < ReadPng(png_list[2]).w
    /\ base_img.strips[2].w = V_WIDTH

\* C5: during a document's composition pasted_line starts at 10, never
\* decreases and never exceeds the canvas height 100000; the step that rejects a
\* page changes neither pasted_line nor the canvas.
C5_WriteOffset ==
    /\ [](Composing => (TOP_MARGIN <= pasted_line /\ pasted_line <= TEMP_HEIGHT))
    /\ [][/\ (pc = "idle" /\ pc' = "loop") => pasted_line' = TOP_MARGIN
          /\ Composing => pasted_line' >= pasted_line
          /\ (pc = "loop" /\ ~result') =>
                (pasted_line' = pasted_line /\ base_img' = base_img)]_vars

C5_Witness ==
    /\ pc = "post"
    /\ ~result
    /\ pasted_line > TOP_MARGIN
    /\ Len(base_img.strips) >= 1

\* C6: every run that composes a document appends exactly one log line:
\* "size-exceeded" if a page failed to fit, else "resized" if the overflow flag
\* was set, else "normal".
C6_OneLogLine ==
    \A i \in DOMAIN trace :
        trace[i].ret =>
            Messages(trace[i].lines) =
                <<IF trace[i].aborted THEN "size_exceeded"
                  ELSE IF trace[i].over THEN "resized" ELSE "normal">>

\* C7: two execute calls on the one instance with the same arguments end with
\* the same return value, composite, log outcome and flags, whatever ran before.
C7_CallsIndependent ==
    \A i, j \in DOMAIN trace :
        trace[i].call = trace[j].call =>
            /\ trace[i].ret = trace[j].ret
            /\ trace[i].img = trace[j].img
            /\ Messages(trace[i].lines) = Messages(trace[j].lines)
            /\ trace[i].aborted = trace[j].aborted
            /\ trace[i].over = trace[j].over
            /\ trace[i].width = trace[j].width
            /\ trace[i].offset = trace[j].offset

C7_Witness ==
    \E i, j \in DOMAIN trace :
        /\ i < j
        /\ trace[i].call = trace[j].call
        /\ trace[i].aborted
        /\ trace[i].over
        /\ trace[j].img.h = SIZE_MAX

\* C8: when the page loop ends without an abort and pasted_line has exceeded
\* 65535, whichever page crossed it, over_flg is set.
C8_OverflowFlagged ==
    (pc = "post" /\ result /\ pasted_line > SIZE_MAX) => over_flg

\* C9: in PDF mode the k-th strip of the composite is the k-th page of the PDF.
C9_PageOrder ==
    (Composing /\ pdf_path # <<>>) =>
        \A k \in DOMAIN base_img.strips : base_img.strips[k].src = k

\* C10: a call with no pdf_path and without both a png_list and a save_name
\* returns False and changes nothing of the instance, the log or the output
\* files; every other call that returns returns True.
C10_RejectedCall ==
    /\ [](\A i \in DOMAIN trace :
            trace[i].ret = ~(/\ trace[i].call.pdf_path = <<>>
                             /\ (trace[i].call.png_list = <<>>
                                 \/ trace[i].call.save_name = <<>>)))
    /\ [][(/\ calls' # calls
           /\ call'.pdf_path = <<>>
           /\ (call'.png_list = <<>> \/ call'.save_name = <<>>)) =>
             /\ Len(trace') = Len(trace) + 1
             /\ UNCHANGED <<pc, pdf_path, save_name, png_list, temp, output_width,
                            pasted_line, base_img, over_flg, log, png_dir, drive>>]_vars

C10_Witness ==
    \E i \in DOMAIN trace :
        /\ i > 1
        /\ trace[i - 1].ret
        /\ ~trace[i].ret
        /\ trace[i].call.png_list # <<>>
        /\ pc = "idle"
        /\ Len(log) >= 1

====
